---------------------------- MODULE Spec2Model ----------------------------
(***************************************************************************)
(* Model of the extraction -> parsing -> aggregation pipeline of           *)
(* pisteet_web.py / pisteet3_web.py (the four pipeline functions are       *)
(* textually identical in the two files).                                  *)
(*                                                                         *)
(* Each pipeline function is a loop; its model has one action per loop     *)
(* iteration and one per way of leaving the function.  Every function has  *)
(* a specification of its own whose initial states draw the function's     *)
(* arguments from bounded sets:                                            *)
(*   SpecAggregate  aggregate(rows, points_map)                            *)
(*   SpecExtract    read_pdf_text_bytes(data)                              *)
(*   SpecParse      parse_pdf_rows(text)                                   *)
(*   SpecPoints     read_points_txt_bytes(data)                            *)
(* SpecApp is the session of pisteet_web.py: its script runs, which call   *)
(* the four functions.                                                     *)
(* Python strings that the code takes apart (text, lines, tokens) are      *)
(* sequences of one-character strings; strings the code only compares      *)
(* (codes in aggregate, date keys) are TLA+ strings.                       *)
(***************************************************************************)
EXTENDS Integers, Sequences, FiniteSets, TLC

VARIABLES
    \* ---- aggregate(rows, points_map) ----
    rows,               \* argument: sequence of Row [code, dt]
    points_map,         \* argument: dict code -> int
    apc,                \* "idle" | "loop" | "returned"
    ai,                 \* number of rows the for loop has consumed
    daily_totals,       \* defaultdict(int): date_key -> int
    daily_by_code,      \* defaultdict of defaultdict: date_key -> code -> stat
    totals_by_code,     \* defaultdict: code -> stat
    grand_total_points, \* int
    \* ---- read_pdf_text_bytes(data) ----
    epc,                \* "idle" | "loop" | "returned" | "raised"
    ei,                 \* number of backends the for loop has consumed
    calls,              \* trace: <<[fn, out]>> of the backend calls made so far
    txt,                \* the local txt (result of the last backend call)
    etext,              \* the returned text, None until the return
    eerror,             \* the message of the RuntimeError, "None" until it is raised
    \* ---- parse_pdf_rows(text) ----
    matches,            \* argument: the ROW_RE matches of text, in document order
    ppc,                \* "idle" | "loop" | "returned" | "raised"
    pi,                 \* number of matches the for loop has consumed
    prows,              \* the local list rows
    \* ---- read_points_txt_bytes(data) ----
    src,                \* the lines the table text was written from (with their reading)
    text,               \* data.decode(...): sequence of characters
    lpc,                \* "idle" | "loop" | "returned" | "raised"
    li,                 \* number of lines the for loop has consumed
    mapping,            \* dict: code (character sequence) -> int
    \* ---- the session of pisteet_web.py (st.session_state) ----
    pdf_bytes,          \* state.pdf_bytes
    txt_bytes,          \* state.txt_bytes
    calc,               \* state.calc
    selected_day,       \* state.selected_day
    button              \* the button pressed in the latest script run

aggVars == <<rows, points_map, apc, ai, daily_totals, daily_by_code,
             totals_by_code, grand_total_points>>
extVars == <<epc, ei, calls, txt, etext, eerror>>
parVars == <<matches, ppc, pi, prows>>
ptsVars == <<src, text, lpc, li, mapping>>
appVars == <<pdf_bytes, txt_bytes, calc, selected_day, button>>
vars == <<aggVars, extVars, parVars, ptsVars, appVars>>

\* The empty dict.
EmptyDict == [k \in {} |-> 0]

\* d[k] = v on a dict.
Put(d, k, v) == [x \in DOMAIN d \cup {k} |-> IF x = k THEN v ELSE d[x]]

RECURSIVE SumOver(_, _)
\* Sum of f[k] over the keys k in S.
SumOver(f, S) ==
    IF S = {} THEN 0
    ELSE LET k == CHOOSE x \in S : TRUE IN f[k] + SumOver(f, S \ {k})

\* Sequences over S of length 0..n.
SeqsUpTo(S, n) == UNION {[1..k -> S] : k \in 0..n}

(***************************************************************************)
(* Functions that are not running.                                         *)
(***************************************************************************)
IdleAggregate ==
    /\ rows = <<>> /\ points_map = EmptyDict /\ apc = "idle" /\ ai = 0
    /\ daily_totals = EmptyDict /\ daily_by_code = EmptyDict
    /\ totals_by_code = EmptyDict /\ grand_total_points = 0

IdleExtract ==
    /\ epc = "idle" /\ ei = 0 /\ calls = <<>> /\ txt = [isstr |-> FALSE, s |-> <<>>]
    /\ etext = [isstr |-> FALSE, s |-> <<>>] /\ eerror = "None"

IdleParse ==
    /\ matches = <<>> /\ ppc = "idle" /\ pi = 0 /\ prows = <<>>

IdlePoints ==
    /\ src = <<>> /\ text = <<>> /\ lpc = "idle" /\ li = 0 /\ mapping = EmptyDict

\* None as the value of state.pdf_bytes, state.txt_bytes and state.calc.
NoPdf == [tag |-> "None", backends |-> <<>>, matches |-> <<>>]
NoTxt == [tag |-> "None", text |-> <<>>]
NoCalc ==
    [isnone |-> TRUE, daily_totals |-> EmptyDict, daily_by_code |-> EmptyDict,
     totals_by_code |-> EmptyDict, grand_total |-> 0]

\* The session as _get_state() creates it, before any script run.
IdleApp ==
    /\ pdf_bytes = NoPdf /\ txt_bytes = NoTxt /\ calc = NoCalc
    /\ selected_day = "None" /\ button = "none"

(***************************************************************************)
(*                         aggregate(rows, points_map)                      *)
(***************************************************************************)
\* Bounds and input sets.
MaxRows == 3
Codes == {"AB12C", "XY789", "QQ000"}
TableCodes == {"AB12C", "XY789"}
PointVals == {5, -2}
Stamps == {[year |-> 2024, month |-> 1, day |-> 1, hour |-> 9,  minute |-> 0],
           [year |-> 2024, month |-> 1, day |-> 1, hour |-> 10, minute |-> 0],
           [year |-> 2024, month |-> 2, day |-> 1, hour |-> 9,  minute |-> 0]}
Rows == [code : Codes, dt : Stamps]
PointsMaps == UNION {[D -> PointVals] : D \in SUBSET TableCodes}

\* n as a decimal string zero-padded to width w (strftime's %Y, %m, %d).
Pad(n, w) ==
    LET s == ToString(n)
        z == w - Len(s)
    IN  IF z <= 0 THEN s
        ELSE IF z = 1 THEN "0" \o s
        ELSE IF z = 2 THEN "00" \o s
        ELSE "000" \o s

\* A mutant of DateKey: the format "%Y-%m" (the day is left out).
DateKeyNoDay(when) == Pad(when.year, 4) \o "-" \o Pad(when.month, 2)

\* r.dt.strftime("%Y-%m-%d")
DateKey(when) ==
    Pad(when.year, 4) \o "-" \o Pad(when.month, 2) \o "-" \o Pad(when.day, 2)

\* A mutant of Lookup: the default of .get is 1.
LookupDefaultOne(pm, code) == IF code \in DOMAIN pm THEN pm[code] ELSE 1

\* points_map.get(r.code, 0)
Lookup(pm, code) == IF code \in DOMAIN pm THEN pm[code] ELSE 0

\* The default factory of daily_by_code[..] and of totals_by_code.
DefaultStat == [count |-> 0, per_code |-> 0, sum |-> 0]

\* A mutant of Bump: sum is count * per_code with the count before the increment.
BumpStaleCount(stat, per_code) ==
    [count |-> stat.count + 1, per_code |-> per_code, sum |-> stat.count * per_code]

\* d['count'] += 1; d['per_code'] = per_code; d['sum'] = d['count'] * per_code
Bump(stat, per_code) ==
    [count |-> stat.count + 1, per_code |-> per_code,
     sum |-> (stat.count + 1) * per_code]

\* A mutant of TotalsUpdate: the entry is rebuilt from the default on every row.
TotalsUpdateReset(tbc, code, per_code) ==
    Put(tbc, code, Bump(DefaultStat, per_code))

\* t = totals_by_code[r.code]; then the three updates of t.
TotalsUpdate(tbc, code, per_code) ==
    LET t == IF code \in DOMAIN tbc THEN tbc[code] ELSE DefaultStat
    IN  Put(tbc, code, Bump(t, per_code))

\* d = daily_by_code[date_key][r.code]; then the three updates of d.
DailyUpdate(dbc, date_key, code, per_code) ==
    LET day == IF date_key \in DOMAIN dbc THEN dbc[date_key] ELSE EmptyDict
        d   == IF code \in DOMAIN day THEN day[code] ELSE DefaultStat
    IN  Put(dbc, date_key, Put(day, code, Bump(d, per_code)))

\* A mutant of DailyTotalsAdd: the day's total is overwritten, not added to.
DailyTotalsSet(dt_, date_key, per_code) == Put(dt_, date_key, per_code)

\* daily_totals[date_key] += per_code
DailyTotalsAdd(dt_, date_key, per_code) ==
    Put(dt_, date_key,
        (IF date_key \in DOMAIN dt_ THEN dt_[date_key] ELSE 0) + per_code)

InitAggregate ==
    /\ rows \in SeqsUpTo(Rows, MaxRows)
    /\ points_map \in PointsMaps
    /\ apc = "loop" /\ ai = 0
    /\ daily_totals = EmptyDict /\ daily_by_code = EmptyDict
    /\ totals_by_code = EmptyDict /\ grand_total_points = 0
    /\ IdleExtract /\ IdleParse /\ IdlePoints /\ IdleApp

\* One iteration of `for r in rows`.
AggregateStep ==
    /\ apc = "loop" /\ ai < Len(rows)
    /\ LET r        == rows[ai + 1]
           date_key == DateKey(r.dt)
           per_code == Lookup(points_map, r.code)
       IN  /\ daily_by_code' = DailyUpdate(daily_by_code, date_key, r.code, per_code)
           /\ totals_by_code' = TotalsUpdate(totals_by_code, r.code, per_code)
           /\ daily_totals' = DailyTotalsAdd(daily_totals, date_key, per_code)
           /\ grand_total_points' = grand_total_points + per_code
    /\ ai' = ai + 1
    /\ UNCHANGED <<rows, points_map, apc, extVars, parVars, ptsVars, appVars>>

\* The loop is exhausted: return the four aggregates (the dict(...) copies
\* hold what the defaultdicts hold).
AggregateReturn ==
    /\ apc = "loop" /\ ai = Len(rows)
    /\ apc' = "returned"
    /\ UNCHANGED <<rows, points_map, ai, daily_totals, daily_by_code,
                   totals_by_code, grand_total_points, extVars, parVars, ptsVars,
                   appVars>>

NextAggregate == AggregateStep \/ AggregateReturn

SpecAggregate == InitAggregate /\ [][NextAggregate]_vars

(***************************************************************************)
(* Claims about aggregate.                                                 *)
(***************************************************************************)
Running == apc \in {"loop", "returned"}

\* The sum fields of totals_by_code, as a dict code -> int.
SumField(stats) == [c \in DOMAIN stats |-> stats[c].sum]

\* C1: after every record the loop has processed (every prefix of rows), and
\* so in the result, GrandTotal equals the sum of all DailyTotals values and
\* the sum of TotalsByCode[c].sum over all codes c.
C1_GrandTotalEqualsSums ==
    Running =>
        /\ grand_total_points = SumOver(daily_totals, DOMAIN daily_totals)
        /\ grand_total_points =
               SumOver(SumField(totals_by_code), DOMAIN totals_by_code)

\* C1's case: a finished run over records of two dates and two codes with a
\* nonzero grand total.
C1_Witness ==
    /\ apc = "returned" /\ ai = Len(rows) /\ ai >= 3
    /\ Cardinality(DOMAIN daily_totals) >= 2
    /\ Cardinality(DOMAIN totals_by_code) >= 2
    /\ grand_total_points # 0

StatOk(stat) == stat.count >= 1 /\ stat.sum = stat.count * stat.per_code

\* C2: every CodeStat present in DailyByCode and in TotalsByCode has
\* sum = count * per_code and count >= 1 (after every record, and so in the
\* result).
C2_SumIsCountTimesPerCode ==
    Running =>
        /\ \A d \in DOMAIN daily_by_code :
               \A c \in DOMAIN daily_by_code[d] : StatOk(daily_by_code[d][c])
        /\ \A c \in DOMAIN totals_by_code : StatOk(totals_by_code[c])

\* C2's case: a result holding a code counted twice on one day with a
\* nonzero per-code value.
C2_Witness ==
    /\ apc = "returned"
    /\ \E d \in DOMAIN daily_by_code : \E c \in DOMAIN daily_by_code[d] :
           /\ daily_by_code[d][c].count = 2
           /\ daily_by_code[d][c].per_code # 0
           /\ totals_by_code[c].count = 3

\* The count of code c on date d, 0 when c does not occur on d.
DayCount(d, c) ==
    IF c \in DOMAIN daily_by_code[d] THEN daily_by_code[d][c].count ELSE 0

\* C3: for every code c, TotalsByCode[c].count is the sum over all dates d of
\* DailyByCode[d][c].count (0 where c does not occur), and the codes keyed in
\* TotalsByCode are exactly the codes keyed under some date of DailyByCode.
C3_TotalsCountIsSumOfDailyCounts ==
    Running =>
        /\ DOMAIN totals_by_code =
               UNION {DOMAIN daily_by_code[d] : d \in DOMAIN daily_by_code}
        /\ \A c \in DOMAIN totals_by_code :
               totals_by_code[c].count =
                   SumOver([d \in DOMAIN daily_by_code |-> DayCount(d, c)],
                           DOMAIN daily_by_code)

\* C3's case: a result in which one code occurs on two dates and another
\* code on one of them only.
C3_Witness ==
    /\ apc = "returned"
    /\ \E c \in DOMAIN totals_by_code :
           /\ totals_by_code[c].count >= 2
           /\ \E d1, d2 \in DOMAIN daily_by_code :
                  d1 # d2 /\ DayCount(d1, c) >= 1 /\ DayCount(d2, c) >= 1
    /\ \E c \in DOMAIN totals_by_code : \E d \in DOMAIN daily_by_code :
           DayCount(d, c) = 0

\* The count of a dict entry before an update, 0 when the key is new.
CountOr0(stats, c) == IF c \in DOMAIN stats THEN stats[c].count ELSE 0

\* C9: a loop iteration on a record whose code has no entry in the points
\* table leaves GrandTotal and every DailyTotals value as they were (the
\* record's date key is created with 0 if it is new), and increments the
\* count of the record's DailyByCode and TotalsByCode entries, whose per_code
\* and sum are 0.
C9_UnknownCodeContributesZero ==
    [][(apc = "loop" /\ ai < Len(rows) /\ ai' = ai + 1
        /\ rows[ai + 1].code \notin DOMAIN points_map) =>
          LET r == rows[ai + 1]
              k == DateKey(r.dt)
              before == IF k \in DOMAIN daily_by_code
                        THEN CountOr0(daily_by_code[k], r.code) ELSE 0
          IN  /\ grand_total_points' = grand_total_points
              /\ DOMAIN daily_totals' = DOMAIN daily_totals \cup {k}
              /\ \A d \in DOMAIN daily_totals :
                     daily_totals'[d] = daily_totals[d]
              /\ k \notin DOMAIN daily_totals => daily_totals'[k] = 0
              /\ daily_by_code'[k][r.code] =
                     [count |-> before + 1, per_code |-> 0, sum |-> 0]
              /\ totals_by_code'[r.code] =
                     [count |-> CountOr0(totals_by_code, r.code) + 1,
                      per_code |-> 0, sum |-> 0]
      ]_vars

\* C9's case: the record just processed has a code absent from the table, it
\* is that code's second record, and an earlier record of the same date has
\* scored points.
C9_Witness ==
    /\ apc = "loop" /\ ai = 3
    /\ rows[3].code \notin DOMAIN points_map
    /\ rows[2].code = rows[3].code
    /\ rows[1].code \in DOMAIN points_map
    /\ DateKey(rows[1].dt) = DateKey(rows[3].dt)
    /\ totals_by_code[rows[3].code] = [count |-> 2, per_code |-> 0, sum |-> 0]
    /\ daily_totals[DateKey(rows[3].dt)] # 0

\* The YYYY-MM-DD date of the timestamps the records are drawn from, written
\* out by hand.
IsoDate(when) ==
    CASE when.year = 2024 /\ when.month = 1 /\ when.day = 1 -> "2024-01-01"
      [] when.year = 2024 /\ when.month = 2 /\ when.day = 1 -> "2024-02-01"
      [] OTHER -> "?"

\* The points-table value of a code, 0 if absent, summed over the records of
\* date d.
PointsOfDate(d) ==
    LET I == {i \in 1..Len(rows) : IsoDate(rows[i].dt) = d}
    IN  SumOver([i \in I |-> IF rows[i].code \in DOMAIN points_map
                               THEN points_map[rows[i].code] ELSE 0], I)

\* C10: the keys of the returned DailyTotals are exactly the YYYY-MM-DD dates
\* of the records, and DailyTotals[d] is the sum over every record of date d
\* (duplicates counted separately) of the table value of its code, 0 if
\* absent; two XY789 records on 2024-01-01 with XY789 -> 5 give
\* DailyTotals["2024-01-01"] = 10 and GrandTotal = 10.
C10_DailyTotalsPerDate ==
    apc = "returned" =>
        /\ DOMAIN daily_totals = {IsoDate(rows[i].dt) : i \in 1..Len(rows)}
        /\ \A d \in DOMAIN daily_totals : daily_totals[d] = PointsOfDate(d)
        /\ (/\ Len(rows) = 2
            /\ \A i \in 1..2 : rows[i].code = "XY789" /\ IsoDate(rows[i].dt) = "2024-01-01"
            /\ points_map = [c \in {"XY789"} |-> 5])
           => /\ daily_totals = [d \in {"2024-01-01"} |-> 10]
              /\ grand_total_points = 10

\* C10's case: a result over a duplicated record (same code and timestamp)
\* worth 5 points each and a record of another date.
C10_Witness ==
    /\ apc = "returned" /\ Len(rows) = 3
    /\ rows[1] = rows[2] /\ rows[1].code = "XY789"
    /\ IsoDate(rows[1].dt) = "2024-01-01" /\ IsoDate(rows[3].dt) = "2024-02-01"
    /\ "XY789" \in DOMAIN points_map /\ points_map["XY789"] = 5
    /\ daily_totals["2024-01-01"] = 10
    /\ Cardinality(DOMAIN daily_totals) = 2


(***************************************************************************)
(*                        read_pdf_text_bytes(data)                         *)
(***************************************************************************)
\* A Python value that is a str (s: its characters) or None.
Str(s) == [isstr |-> TRUE, s |-> s]
NoneVal == [isstr |-> FALSE, s |-> <<>>]

\* The characters str.strip() removes, among those the model's texts use.
Whitespace == {" ", "\n", "\t"}

RECURSIVE LStrip(_)
LStrip(s) ==
    IF s # <<>> /\ Head(s) \in Whitespace THEN LStrip(Tail(s)) ELSE s

RECURSIVE RStrip(_)
RStrip(s) ==
    IF s # <<>> /\ s[Len(s)] \in Whitespace
    THEN RStrip(SubSeq(s, 1, Len(s) - 1)) ELSE s

\* A mutant of Strip: nothing is stripped.
StripNothing(s) == s

\* s.strip()
Strip(s) == RStrip(LStrip(s))

RECURSIVE Join(_, _)
\* sep.join(parts)
Join(sep, parts) ==
    IF parts = <<>> THEN <<>>
    ELSE IF Len(parts) = 1 THEN parts[1]
    ELSE parts[1] \o sep \o Join(sep, Tail(parts))

\* Bounds and input sets: what a backend can do with the document.
MaxPages == 2
PageTexts == {NoneVal, Str(<<>>), Str(<<" ">>), Str(<<"a">>), Str(<<" ", "b", "\n">>)}
Outcomes ==
    {[kind |-> "import_error", pages |-> <<>>],
     [kind |-> "raises", pages |-> <<>>]}
    \cup {[kind |-> "pages", pages |-> ps] : ps \in SeqsUpTo(PageTexts, MaxPages)}

\* page.extract_text() or ""   (page.get_text() or "")
OrEmpty(v) == IF v.isstr /\ v.s # <<>> THEN v.s ELSE <<>>

\* _read_pdf_text_with_pdfplumber_bytes, .._pypdf2_bytes, .._pymupdf_bytes:
\* None when the import fails or the library raises, else the page texts
\* joined by newlines.
ReadBackend(outcome) ==
    IF outcome.kind \in {"import_error", "raises"} THEN NoneVal
    ELSE Str(Join(<<"\n">>,
                  [i \in 1..Len(outcome.pages) |-> OrEmpty(outcome.pages[i])]))

\* A mutant of Backends: PyPDF2 is tried before pdfplumber.
BackendsSwapped == <<"pypdf2", "pdfplumber", "pymupdf">>

\* The tuple the for loop of read_pdf_text_bytes runs over.
Backends == <<"pdfplumber", "pypdf2", "pymupdf">>

\* The message of the RuntimeError (its a-umlaut written as a).
OcrMessage ==
    "PDF-tekstin luku epaonnistui. Jos PDF on skannattu kuva, tarvitaan OCR."

InitExtract ==
    /\ epc = "loop" /\ ei = 0 /\ calls = <<>> /\ txt = NoneVal
    /\ etext = NoneVal /\ eerror = "None"
    /\ IdleAggregate /\ IdleParse /\ IdlePoints /\ IdleApp

\* One iteration of the for loop: call the next backend, return its text if
\* it is a non-blank str.
ExtractCall ==
    /\ epc = "loop" /\ ei < Len(Backends)
    /\ \E outcome \in Outcomes :
         LET out == ReadBackend(outcome)
         IN  /\ txt' = out
             /\ calls' = Append(calls, [fn |-> Backends[ei + 1],
                                        kind |-> outcome.kind, out |-> out])
             /\ IF out.isstr /\ Strip(out.s) # <<>>
                THEN epc' = "returned" /\ etext' = out /\ ei' = ei
                ELSE epc' = epc /\ etext' = etext /\ ei' = ei + 1
    /\ UNCHANGED <<eerror, aggVars, parVars, ptsVars, appVars>>

\* The loop is exhausted: raise RuntimeError.
ExtractRaise ==
    /\ epc = "loop" /\ ei = Len(Backends)
    /\ epc' = "raised" /\ eerror' = OcrMessage
    /\ UNCHANGED <<ei, calls, txt, etext, aggVars, parVars, ptsVars, appVars>>

NextExtract == ExtractCall \/ ExtractRaise

SpecExtract == InitExtract /\ [][NextExtract]_vars

(***************************************************************************)
(* Claims about read_pdf_text_bytes.                                       *)
(***************************************************************************)
\* A text made of spaces, tabs and newlines only (or of nothing).
IsBlank(s) == \A i \in 1..Len(s) : s[i] \in {" ", "\n", "\t"}

\* A backend call that failed (None) or gave blank text.
NoText(call) == ~call.out.isstr \/ IsBlank(call.out.s)

\* C5: a normal return carries a non-blank text; and once all three backends
\* have failed or given blank text the call does not return: its only step
\* is the RuntimeError carrying the OCR guidance.
C5_NeverReturnsBlank ==
    /\ epc = "returned" => etext.isstr /\ ~IsBlank(etext.s)
    /\ epc # "returned" => etext = NoneVal
    /\ (Len(calls) = 3 /\ \A i \in 1..3 : NoText(calls[i])) =>
           \/ epc = "loop" /\ ENABLED ExtractRaise /\ ~ENABLED ExtractCall
           \/ epc = "raised" /\ eerror = OcrMessage
    /\ epc = "raised" => Len(calls) = 3 /\ \A i \in 1..3 : NoText(calls[i])

\* C5's case: the error was raised after an import error, a library
\* exception and a whitespace-only text.
C5_Witness ==
    /\ epc = "raised" /\ eerror = OcrMessage
    /\ \E i, j, k \in 1..3 :
           /\ calls[i].kind = "import_error"
           /\ calls[j].kind = "raises"
           /\ calls[k].out.isstr /\ calls[k].out.s # <<>> /\ IsBlank(calls[k].out.s)

\* C6: the backends are called in the order pdfplumber, PyPDF2, PyMuPDF; a
\* call that fails or gives blank text is followed by the next backend (the
\* failure does not end the call); the returned text is exactly the text of
\* the first call that gave a non-blank str, and no backend is called after
\* it.
C6_FirstNonBlankBackendWins ==
    /\ Len(calls) <= 3
    /\ \A i \in 1..Len(calls) :
           calls[i].fn = <<"pdfplumber", "pypdf2", "pymupdf">>[i]
    /\ \A i \in 1..Len(calls) - 1 : NoText(calls[i])
    /\ (Len(calls) >= 1 /\ NoText(calls[Len(calls)])) =>
           \/ epc = "loop" /\ ei = Len(calls)
           \/ epc = "raised" /\ Len(calls) = 3
    /\ (Len(calls) >= 1 /\ ~NoText(calls[Len(calls)])) =>
           epc = "returned" /\ etext = calls[Len(calls)].out
    /\ epc = "returned" => Len(calls) >= 1 /\ ~NoText(calls[Len(calls)])

\* C6's case: pdfplumber raised inside, PyPDF2 gave blank text and PyMuPDF's
\* two-page text was returned.
C6_Witness ==
    /\ epc = "returned" /\ Len(calls) = 3
    /\ calls[1].kind = "raises"
    /\ calls[2].kind = "pages" /\ IsBlank(calls[2].out.s)
    /\ calls[3].fn = "pymupdf"
    /\ etext = Str(<<"a", "\n", " ", "b", "\n">>)


(***************************************************************************)
(*                           parse_pdf_rows(text)                           *)
(*                                                                         *)
(* The text is given by its ROW_RE matches in document order.  A match is  *)
(* [code, day, tim]: group(2) is the date token dd.mm.yyyy as its three    *)
(* numbers, group(3) the time token as hh, its separator and mm.           *)
(***************************************************************************)
\* Bounds and input sets.
MaxMatches == 2
MatchCodes == {"AB12C", "XY789"}
DayToks == {[dd |-> 1,  mm |-> 1,  yyyy |-> 2024],
            [dd |-> 29, mm |-> 2,  yyyy |-> 2024],
            [dd |-> 29, mm |-> 2,  yyyy |-> 2023],
            [dd |-> 32, mm |-> 1,  yyyy |-> 2024],
            [dd |-> 15, mm |-> 13, yyyy |-> 2024],
            [dd |-> 31, mm |-> 4,  yyyy |-> 2024]}
TimeToks == {[hh |-> 9,  sep |-> ":", mi |-> 0],
             [hh |-> 21, sep |-> ".", mi |-> 46],
             [hh |-> 25, sep |-> ":", mi |-> 0],
             [hh |-> 10, sep |-> ".", mi |-> 60]}
Matches == [code : MatchCodes, day : DayToks, tim : TimeToks]

\* tim.replace(old, new) on a time token: its one separator character.
Replace(tim, old, new) ==
    [tim EXCEPT !.sep = IF @ = old THEN new ELSE @]

IsLeap(y) == y % 4 = 0 /\ (y % 100 # 0 \/ y % 400 = 0)

\* The number of days of month m of year y (datetime's calendar).
DaysIn(m, y) ==
    IF m = 2 THEN (IF IsLeap(y) THEN 29 ELSE 28)
    ELSE IF m \in {4, 6, 9, 11} THEN 30 ELSE 31

\* dt.datetime.strptime(f"{day} {tim}", "%d.%m.%Y %H<fsep>%M"): the datetime,
\* or ValueError (ok = FALSE) when the time's separator is not the format's
\* or a field is out of range.
Strptime(day, tim, fsep) ==
    IF /\ tim.sep = fsep
       /\ day.yyyy \in 1..9999 /\ day.mm \in 1..12
       /\ day.dd \in 1..DaysIn(day.mm, day.yyyy)
       /\ tim.hh \in 0..23 /\ tim.mi \in 0..59
    THEN [ok |-> TRUE,
          dt |-> [year |-> day.yyyy, month |-> day.mm, day |-> day.dd,
                  hour |-> tim.hh, minute |-> tim.mi]]
    ELSE [ok |-> FALSE,
          dt |-> [year |-> 0, month |-> 0, day |-> 0, hour |-> 0, minute |-> 0]]

InitParse ==
    /\ matches \in SeqsUpTo(Matches, MaxMatches)
    /\ ppc = "loop" /\ pi = 0 /\ prows = <<>>
    /\ IdleAggregate /\ IdleExtract /\ IdlePoints /\ IdleApp

\* One iteration of `for m in ROW_RE.finditer(text)`: the try, the fallback
\* in the except clause (whose ValueError nothing catches), the append.
ParseStep ==
    /\ ppc = "loop" /\ pi < Len(matches)
    /\ LET m    == matches[pi + 1]
           tim  == Replace(m.tim, ":", ".")
           try  == Strptime(m.day, tim, ".")
           tim2 == Replace(tim, ".", ":")
           exc  == Strptime(m.day, tim2, ":")
       IN  IF try.ok
           THEN /\ prows' = Append(prows, [code |-> m.code, dt |-> try.dt])
                /\ pi' = pi + 1 /\ ppc' = ppc
           ELSE IF exc.ok
           THEN /\ prows' = Append(prows, [code |-> m.code, dt |-> exc.dt])
                /\ pi' = pi + 1 /\ ppc' = ppc
           ELSE /\ ppc' = "raised"
                /\ UNCHANGED <<prows, pi>>
    /\ UNCHANGED <<matches, aggVars, extVars, ptsVars, appVars>>

\* The matches are exhausted: return rows.
ParseReturn ==
    /\ ppc = "loop" /\ pi = Len(matches)
    /\ ppc' = "returned"
    /\ UNCHANGED <<matches, pi, prows, aggVars, extVars, ptsVars, appVars>>

NextParse == ParseStep \/ ParseReturn

SpecParse == InitParse /\ [][NextParse]_vars

(***************************************************************************)
(* Claims about parse_pdf_rows.                                            *)
(***************************************************************************)
\* A match whose date and time form a calendar timestamp.
IsTimestamp(m) ==
    /\ m.day.mm \in 1..12 /\ m.day.dd \in 1..DaysIn(m.day.mm, m.day.yyyy)
    /\ m.tim.hh \in 0..23 /\ m.tim.mi \in 0..59

\* The codes of the matches among the first n that form a timestamp, in
\* document order.
RECURSIVE ValidCodes(_)
ValidCodes(n) ==
    IF n = 0 THEN <<>>
    ELSE IF IsTimestamp(matches[n])
         THEN Append(ValidCodes(n - 1), matches[n].code)
         ELSE ValidCodes(n - 1)

\* C4: parse_pdf_rows never fails on a match that is no calendar timestamp:
\* it drops the match and still returns every other match, in document order.
C4_InvalidRowDroppedSilently ==
    /\ ppc # "raised"
    /\ ppc = "returned" =>
           [i \in 1..Len(prows) |-> prows[i].code] = ValidCodes(Len(matches))


(***************************************************************************)
(*                       read_points_txt_bytes(data)                        *)
(*                                                                         *)
(* The model starts from text, the decoded data (decoding with             *)
(* errors="ignore" cannot fail).  Numbers are exact integers; float(pts)   *)
(* is the decimal value of the literal, which is what Python computes for  *)
(* values below 2^53.                                                      *)
(***************************************************************************)
LowerLetters == <<"a", "b", "c", "d", "e", "f", "g", "h", "i", "j", "k", "l", "m",
                  "n", "o", "p", "q", "r", "s", "t", "u", "v", "w", "x", "y", "z">>
UpperLetters == <<"A", "B", "C", "D", "E", "F", "G", "H", "I", "J", "K", "L", "M",
                  "N", "O", "P", "Q", "R", "S", "T", "U", "V", "W", "X", "Y", "Z">>
Digits == <<"0", "1", "2", "3", "4", "5", "6", "7", "8", "9">>
DigitSet == {Digits[i] : i \in 1..Len(Digits)}

\* c.upper() / c.lower() of one character.
UpperChar(c) ==
    IF \E i \in 1..Len(LowerLetters) : LowerLetters[i] = c
    THEN UpperLetters[CHOOSE i \in 1..Len(LowerLetters) : LowerLetters[i] = c]
    ELSE c
LowerChar(c) ==
    IF \E i \in 1..Len(UpperLetters) : UpperLetters[i] = c
    THEN LowerLetters[CHOOSE i \in 1..Len(UpperLetters) : UpperLetters[i] = c]
    ELSE c

\* s.upper()
Upper(s) == [i \in 1..Len(s) |-> UpperChar(s[i])]

Lower(s) == [i \in 1..Len(s) |-> LowerChar(s[i])]

\* The index of the first character of s that is in set S, 0 if there is none.
FirstIn(s, S) ==
    IF \E i \in 1..Len(s) : s[i] \in S
    THEN CHOOSE i \in 1..Len(s) : s[i] \in S /\ \A j \in 1..(i - 1) : s[j] \notin S
    ELSE 0

RECURSIVE SplitLines(_)
\* text.splitlines(): the lines between newlines; a final newline ends the
\* last line and opens no empty one.
SplitLines(t) ==
    IF t = <<>> THEN <<>>
    ELSE LET n == FirstIn(t, {"\n"})
         IN  IF n = 0 THEN <<t>>
             ELSE <<SubSeq(t, 1, n - 1)>> \o SplitLines(SubSeq(t, n + 1, Len(t)))

RECURSIVE SplitWs(_)
\* re.split(r"\s+", line) of a stripped, non-empty line.
SplitWs(line) ==
    LET n == FirstIn(line, Whitespace)
    IN  IF n = 0 THEN <<line>>
        ELSE <<SubSeq(line, 1, n - 1)>> \o SplitWs(LStrip(SubSeq(line, n, Len(line))))

IsDigits(s) == s # <<>> /\ \A i \in 1..Len(s) : s[i] \in DigitSet

DigitVal(c) == (CHOOSE i \in 1..Len(Digits) : Digits[i] = c) - 1

RECURSIVE DigitsVal(_)
\* The number a run of digits writes (0 for no digits).
DigitsVal(s) ==
    IF s = <<>> THEN 0
    ELSE 10 * DigitsVal(SubSeq(s, 1, Len(s) - 1)) + DigitVal(s[Len(s)])

RECURSIVE Pow10(_)
Pow10(n) == IF n = 0 THEN 1 ELSE 10 * Pow10(n - 1)

\* The sign a literal starts with, and the literal without it.
SignOf(s) == IF s # <<>> /\ s[1] = "-" THEN -1 ELSE 1
Unsigned(s) == IF s # <<>> /\ s[1] \in {"+", "-"} THEN Tail(s) ELSE s

NoExc(v) == [exc |-> "none", val |-> v]
Exc(name) == [exc |-> name, val |-> 0]

\* int(pts) on a str: optional sign and decimal digits, else ValueError.
PyInt(s) ==
    IF IsDigits(Unsigned(s)) THEN NoExc(SignOf(s) * DigitsVal(Unsigned(s)))
    ELSE Exc("ValueError")

\* int(float(pts)): float accepts [sign] digits [. digits] [e [sign] digits]
\* (digits on at least one side of the point), inf, infinity and nan; int
\* truncates toward zero, and raises OverflowError on an infinity and
\* ValueError on a nan.
PyIntOfFloat(s) ==
    LET body == Unsigned(s)
        word == Lower(body)
        e    == FirstIn(body, {"e", "E"})
        mant == IF e = 0 THEN body ELSE SubSeq(body, 1, e - 1)
        expo == IF e = 0 THEN <<"0">> ELSE SubSeq(body, e + 1, Len(body))
        dot  == FirstIn(mant, {"."})
        whole == IF dot = 0 THEN mant ELSE SubSeq(mant, 1, dot - 1)
        frac  == IF dot = 0 THEN <<>> ELSE SubSeq(mant, dot + 1, Len(mant))
        wellformed ==
            /\ whole \o frac # <<>>
            /\ \A i \in 1..Len(whole \o frac) : (whole \o frac)[i] \in DigitSet
            /\ IsDigits(Unsigned(expo))
        scale == SignOf(expo) * DigitsVal(Unsigned(expo)) - Len(frac)
        n     == DigitsVal(whole \o frac)
    IN  IF word \in {<<"i", "n", "f">>, <<"i", "n", "f", "i", "n", "i", "t", "y">>}
        THEN Exc("OverflowError")
        ELSE IF word = <<"n", "a", "n">> THEN Exc("ValueError")
        ELSE IF ~wellformed THEN Exc("ValueError")
        ELSE IF scale >= 0 THEN NoExc(SignOf(s) * n * Pow10(scale))
        ELSE NoExc(SignOf(s) * (n \div Pow10(-scale)))

\* Whether `except <handler>` catches an exception of class exc.
Catches(handler, exc) == handler = "Exception" \/ handler = exc

\* A mutant of TooFew: only a line without any token is skipped.
TooFewNone(parts) == Len(parts) < 1

\* len(parts) < 2
TooFew(parts) == Len(parts) < 2

\* A mutant of PtsToken: the value is the second token.
PtsTokenSecond(parts) == parts[2]

\* parts[-1]
PtsToken(parts) == parts[Len(parts)]

\* The body of `for line in text.splitlines()` on one line: the mapping after
\* it, and whether an exception left the function.
LineEffect(m, rawline) ==
    LET line  == Strip(rawline)
        parts == SplitWs(line)
        code  == Upper(parts[1])
        pts   == PtsToken(parts)
        r1    == PyInt(pts)
        r2    == PyIntOfFloat(pts)
        skip   == [raised |-> FALSE, mapping |-> m]
        raise  == [raised |-> TRUE, mapping |-> m]
    IN  IF line = <<>> \/ line[1] = "#" THEN skip
        ELSE IF TooFew(parts) THEN skip
        ELSE IF r1.exc = "none"
             THEN [raised |-> FALSE, mapping |-> Put(m, code, r1.val)]
        ELSE IF ~Catches("ValueError", r1.exc) THEN raise
        ELSE IF r2.exc = "none"
             THEN [raised |-> FALSE, mapping |-> Put(m, code, r2.val)]
        ELSE IF ~Catches("Exception", r2.exc) THEN raise
        ELSE skip

\* Tokens and separators the table texts are written with.
tAB12C == <<"A", "B", "1", "2", "C">>
tab12c == <<"a", "b", "1", "2", "c">>
tXY789 == <<"X", "Y", "7", "8", "9">>
tlabel == <<"l", "a", "b", "e", "l">>
sp == <<" ">>
tab == <<"\t">>
hash == <<"#">>

\* The lines a table text is written from.  Next to its characters each line
\* carries how the table's author reads it: kind "entry" (code -> val),
\* "blank", "comment", "short" (fewer than 2 tokens), "badvalue" (last token
\* no number) or "nonfinite" (last token an infinity).
L(chars, kind, code, val) ==
    [chars |-> chars, kind |-> kind, code |-> code, val |-> val]
LinePool ==
    {L(tAB12C \o sp \o sp \o tlabel \o sp \o sp \o <<"1", "0">>, "entry", tAB12C, 10),
     L(tAB12C \o sp \o <<"2", "0">>, "entry", tAB12C, 20),
     L(tab12c \o tab \o <<"2", ".", "9">>, "entry", tAB12C, 2),
     L(sp \o tXY789 \o sp \o <<"7">> \o sp \o <<"-", "3", ".", "7">> \o sp,
       "entry", tXY789, -3),
     L(tXY789 \o sp \o <<"1", "e", "2">>, "entry", tXY789, 100),
     L(<<>>, "blank", <<>>, 0),
     L(sp \o tab, "blank", <<>>, 0),
     L(hash \o sp \o tAB12C \o sp \o <<"5">>, "comment", <<>>, 0),
     L(sp \o hash \o tXY789 \o sp \o <<"5">>, "comment", <<>>, 0),
     L(<<"1", "0">>, "short", <<>>, 0),
     L(tAB12C \o sp \o <<"5">> \o sp \o <<"x">>, "badvalue", tAB12C, 0),
     L(tXY789 \o sp \o <<"i", "n", "f">>, "nonfinite", tXY789, 0)}

\* Bound: the number of lines of a table text.
MaxLines == 3

InitPoints ==
    /\ src \in SeqsUpTo(LinePool, MaxLines)
    /\ text = Join(<<"\n">>, [i \in 1..Len(src) |-> src[i].chars])
    /\ lpc = "loop" /\ li = 0 /\ mapping = EmptyDict
    /\ IdleAggregate /\ IdleExtract /\ IdleParse /\ IdleApp

\* One iteration of `for line in text.splitlines()`.
PointsStep ==
    /\ lpc = "loop" /\ li < Len(SplitLines(text))
    /\ LET eff == LineEffect(mapping, SplitLines(text)[li + 1])
       IN  /\ mapping' = eff.mapping
           /\ IF eff.raised THEN lpc' = "raised" /\ li' = li
                            ELSE lpc' = lpc /\ li' = li + 1
    /\ UNCHANGED <<src, text, aggVars, extVars, parVars, appVars>>

\* The lines are exhausted: return mapping.
PointsReturn ==
    /\ lpc = "loop" /\ li = Len(SplitLines(text))
    /\ lpc' = "returned"
    /\ UNCHANGED <<src, text, li, mapping, aggVars, extVars, parVars, appVars>>

NextPoints == PointsStep \/ PointsReturn

SpecPoints == InitPoints /\ [][NextPoints]_vars

(***************************************************************************)
(* Claims about read_points_txt_bytes.                                     *)
(***************************************************************************)
\* The entry lines of the table for code c.
EntriesOf(c) == {i \in 1..Len(src) : src[i].kind = "entry" /\ src[i].code = c}

\* The last entry line of the table for code c.
LastEntry(c) == CHOOSE i \in EntriesOf(c) : \A j \in EntriesOf(c) : j <= i

\* C7: the returned mapping has exactly the codes (first token, uppercased)
\* of the table's well-formed lines, each with the integer value of the last
\* token of the last well-formed line for that code: middle tokens are
\* ignored and a later line overwrites an earlier one.
C7_LastTokenLastLineWins ==
    lpc = "returned" =>
        /\ DOMAIN mapping = {src[i].code : i \in {j \in 1..Len(src) : src[j].kind = "entry"}}
        /\ \A c \in DOMAIN mapping : mapping[c] = src[LastEntry(c)].val

\* C7's case: "AB12C  label  10", then "AB12C 20", then a line for another
\* code: AB12C -> 20.
C7_Witness ==
    /\ lpc = "returned" /\ Len(src) = 3
    /\ src[1].val = 10 /\ Len(SplitWs(Strip(src[1].chars))) = 3
    /\ src[2].val = 20
    /\ src[3].kind = "entry" /\ src[3].code = tXY789
    /\ mapping[tAB12C] = 20 /\ tXY789 \in DOMAIN mapping

Malformed == {"blank", "comment", "short", "badvalue"}

\* C8: loading never raises; the step over a blank line, a '#' line, a line
\* of fewer than 2 tokens or a line whose last token is no number leaves the
\* mapping exactly as it was; and the returned mapping holds the code of
\* every well-formed line of the table.
C8_MalformedLineSkipped ==
    /\ [](lpc # "raised")
    /\ [][(lpc = "loop" /\ li < Len(src) /\ src[li + 1].kind \in Malformed) =>
              mapping' = mapping /\ lpc' # "raised"]_vars
    /\ [](lpc = "returned" =>
              \A i \in 1..Len(src) :
                  src[i].kind = "entry" => src[i].code \in DOMAIN mapping)

\* C8's case: a value was loaded for a code, then a line for the same code
\* with a bad value and a line of one numeric token were skipped, and the
\* value is still the one loaded first.
C8_Witness ==
    /\ lpc = "returned" /\ Len(src) = 3
    /\ src[1].kind = "entry"
    /\ src[2].kind = "badvalue" /\ src[2].code = src[1].code
    /\ src[3].kind = "short"
    /\ mapping = [c \in {src[1].code} |-> src[1].val]


(***************************************************************************)
(*                   The session-cached app, pisteet_web.py                 *)
(*                                                                         *)
(* One action is one run of the script with the button that triggered it.  *)
(* The pipeline functions are called inside the run; they are the loops    *)
(* modelled above, run to their end.  A PDF is given by what the three     *)
(* backends do with it and by the ROW_RE matches of its text; a points     *)
(* file by its text.                                                       *)
(***************************************************************************)
RECURSIVE ReadPdfFrom(_, _)
\* read_pdf_text_bytes(data): the for loop from backend i on.
ReadPdfFrom(outs, i) ==
    IF i > Len(Backends) THEN [raised |-> TRUE, text |-> NoneVal]
    ELSE LET out == ReadBackend(outs[i])
         IN  IF out.isstr /\ Strip(out.s) # <<>>
             THEN [raised |-> FALSE, text |-> out]
             ELSE ReadPdfFrom(outs, i + 1)

\* The body of the for loop of parse_pdf_rows on one match.
ParseMatch(m) ==
    LET tim  == Replace(m.tim, ":", ".")
        try  == Strptime(m.day, tim, ".")
        tim2 == Replace(tim, ".", ":")
        exc  == Strptime(m.day, tim2, ":")
    IN  IF try.ok THEN [raised |-> FALSE, row |-> [code |-> m.code, dt |-> try.dt]]
        ELSE IF exc.ok
             THEN [raised |-> FALSE, row |-> [code |-> m.code, dt |-> exc.dt]]
        ELSE [raised |-> TRUE, row |-> [code |-> m.code, dt |-> exc.dt]]

\* parse_pdf_rows(text): the rows, or the ValueError of the first match that
\* is no timestamp.
ParseRows(ms) ==
    IF \E i \in 1..Len(ms) : ParseMatch(ms[i]).raised
    THEN [raised |-> TRUE, rows |-> <<>>]
    ELSE [raised |-> FALSE, rows |-> [i \in 1..Len(ms) |-> ParseMatch(ms[i]).row]]

RECURSIVE LoadLines(_, _)
\* read_points_txt_bytes(data): the for loop over the remaining lines.
LoadLines(m, lines) ==
    IF lines = <<>> THEN [raised |-> FALSE, mapping |-> m]
    ELSE LET eff == LineEffect(m, Head(lines))
         IN  IF eff.raised THEN eff ELSE LoadLines(eff.mapping, Tail(lines))

RECURSIVE AggregateFrom(_, _, _)
\* aggregate(rows, points_map): the for loop over the remaining rows, from
\* the aggregates acc.
AggregateFrom(acc, rs, pm) ==
    IF rs = <<>> THEN acc
    ELSE LET r        == Head(rs)
             date_key == DateKey(r.dt)
             per_code == Lookup(pm, r.code)
         IN  AggregateFrom(
                 [isnone |-> FALSE,
                  daily_totals |-> DailyTotalsAdd(acc.daily_totals, date_key, per_code),
                  daily_by_code |->
                      DailyUpdate(acc.daily_by_code, date_key, r.code, per_code),
                  totals_by_code |-> TotalsUpdate(acc.totals_by_code, r.code, per_code),
                  grand_total |-> acc.grand_total + per_code],
                 Tail(rs), pm)

\* The try block of the compute handler up to the dict stored in state.calc.
Pipeline(pdf, txt_) ==
    LET pdf_text == ReadPdfFrom(pdf.backends, 1)
        parsed   == ParseRows(pdf.matches)
        loaded   == LoadLines(EmptyDict, SplitLines(txt_.text))
    IN  IF pdf_text.raised \/ parsed.raised \/ loaded.raised
        THEN [raised |-> TRUE, calc |-> NoCalc]
        ELSE [raised |-> FALSE,
              calc |-> AggregateFrom([NoCalc EXCEPT !.isnone = FALSE],
                                     parsed.rows, loaded.mapping)]

\* Input sets: the files a user can put into the two uploaders.
OnePage == [kind |-> "pages", pages |-> <<Str(<<"a">>)>>]
BlankPage == [kind |-> "pages", pages |-> <<Str(<<" ">>), NoneVal>>]
Fails == [kind |-> "raises", pages |-> <<>>]
NoImport == [kind |-> "import_error", pages |-> <<>>]
Jan1 == [dd |-> 1, mm |-> 1, yyyy |-> 2024]
Feb29 == [dd |-> 29, mm |-> 2, yyyy |-> 2024]
Jan32 == [dd |-> 32, mm |-> 1, yyyy |-> 2024]
Pdf(backends, ms) == [tag |-> "doc", backends |-> backends, matches |-> ms]
PdfDocs ==
    {\* two XY789 rows on one day
     Pdf(<<OnePage, OnePage, OnePage>>,
         <<[code |-> tXY789, day |-> Jan1, tim |-> [hh |-> 9, sep |-> ":", mi |-> 0]],
           [code |-> tXY789, day |-> Jan1, tim |-> [hh |-> 10, sep |-> ":", mi |-> 0]]>>),
     \* read by the second backend; rows on two days
     Pdf(<<NoImport, OnePage, Fails>>,
         <<[code |-> tAB12C, day |-> Feb29, tim |-> [hh |-> 21, sep |-> ".", mi |-> 46]],
           [code |-> tXY789, day |-> Jan1, tim |-> [hh |-> 9, sep |-> ":", mi |-> 0]]>>),
     \* a text without rows
     Pdf(<<OnePage, OnePage, OnePage>>, <<>>),
     \* a row that is no calendar timestamp
     Pdf(<<OnePage, OnePage, OnePage>>,
         <<[code |-> tXY789, day |-> Jan1, tim |-> [hh |-> 9, sep |-> ":", mi |-> 0]],
           [code |-> tAB12C, day |-> Jan32, tim |-> [hh |-> 9, sep |-> ":", mi |-> 0]]>>),
     \* a scanned document: no backend finds text
     Pdf(<<BlankPage, Fails, BlankPage>>, <<>>)}
EmptyPdf == [tag |-> "empty", backends |-> <<>>, matches |-> <<>>]
Txt(t) == [tag |-> "bytes", text |-> t]
TxtDocs ==
    {Txt(tAB12C \o sp \o sp \o tlabel \o sp \o sp \o <<"1", "0", "\n">>
         \o tAB12C \o sp \o <<"2", "0">>),
     Txt(sp \o tXY789 \o sp \o <<"7">> \o sp \o <<"-", "3", ".", "7">> \o sp),
     Txt(hash \o sp \o tAB12C \o sp \o <<"5">>)}

\* What an uploader gives a run: None (no file in the widget), or what
\* file.read() returns: the file's bytes, or b"" (an empty file, or a file
\* object already read to its end).
PdfFiles == {NoPdf, EmptyPdf} \cup PdfDocs
TxtFiles == {NoTxt, Txt(<<>>)} \cup TxtDocs

\* if file is not None: state.<buffer> = file.read()
Upload(buffer, file) == IF file.tag = "None" THEN buffer ELSE file

\* The truth value of a buffer: None and b"" are false.
Truthy(buffer) ==
    /\ buffer.tag # "None"
    /\ buffer.tag # "empty"
    /\ (buffer.tag = "bytes" => buffer.text # <<>>)

\* The negation of `not state.pdf_bytes or not state.txt_bytes`.
BothPresent(pdf, txt_) == Truthy(pdf) /\ Truthy(txt_)

\* A mutant of OnPipelineError: the handler also drops the cached results.
OnPipelineErrorReset(c) == NoCalc

\* except Exception as e: st.error(...) -- state.calc is not assigned.
OnPipelineError(c) == c

\* The compute handler: state.calc after it.
Compute(c, pdf, txt_) ==
    IF ~BothPresent(pdf, txt_) THEN c
    ELSE IF Pipeline(pdf, txt_).raised THEN OnPipelineError(c)
    ELSE Pipeline(pdf, txt_).calc

\* `if state.calc is not None:` -- the values state.selected_day can have
\* after the results section.  With days to show, the selectbox's value (any
\* of the days, the user's choice) is assigned last, over what the compute
\* handler and the initialisation put there; without, nothing is assigned.
ShowResults(c, sel) ==
    IF ~c.isnone /\ DOMAIN c.daily_by_code # {}
    THEN DOMAIN c.daily_by_code ELSE {sel}

InitApp ==
    /\ IdleApp
    /\ IdleAggregate /\ IdleExtract /\ IdleParse /\ IdlePoints

\* A run in which no button was pressed (a file was put into an uploader, a
\* day was selected, or the rerun after a clear).
AppRerun ==
    /\ \E pf \in PdfFiles, tf \in TxtFiles :
           /\ pdf_bytes' = Upload(pdf_bytes, pf)
           /\ txt_bytes' = Upload(txt_bytes, tf)
    /\ button' = "none"
    /\ calc' = calc
    /\ selected_day' \in ShowResults(calc', selected_day)
    /\ UNCHANGED <<aggVars, extVars, parVars, ptsVars>>

\* A run for a press of the clear button: the session is emptied and
\* st.experimental_rerun() ends the run.
AppClear ==
    /\ pdf_bytes' = NoPdf /\ txt_bytes' = NoTxt /\ calc' = NoCalc
    /\ selected_day' = "None"
    /\ button' = "clear"
    /\ UNCHANGED <<aggVars, extVars, parVars, ptsVars>>

\* A run for a press of the compute button.
AppCompute ==
    /\ \E pf \in PdfFiles, tf \in TxtFiles :
           /\ pdf_bytes' = Upload(pdf_bytes, pf)
           /\ txt_bytes' = Upload(txt_bytes, tf)
    /\ button' = "compute"
    /\ calc' = Compute(calc, pdf_bytes', txt_bytes')
    /\ selected_day' \in ShowResults(calc', selected_day)
    /\ UNCHANGED <<aggVars, extVars, parVars, ptsVars>>

NextApp == AppRerun \/ AppClear \/ AppCompute

SpecApp == InitApp /\ [][NextApp]_vars

(***************************************************************************)
(* Claims about the session.                                               *)
(***************************************************************************)
\* The run that ends in the primed state completed the whole pipeline.
PipelineCompleted ==
    /\ Truthy(pdf_bytes') /\ Truthy(txt_bytes')
    /\ ~Pipeline(pdf_bytes', txt_bytes').raised

\* C11: over any sequence of runs state.calc changes in two ways only: a
\* compute press with both buffers present whose pipeline completes replaces
\* it by the aggregates just built, and a clear press sets it to None.  A
\* compute press with a buffer missing or a raising pipeline, and a run
\* without a button press, leave it exactly as it was.
C11_CalcChangesOnlyByComputeOrClear ==
    [][/\ button' = "clear" => calc' = NoCalc
       /\ (button' = "compute" /\ PipelineCompleted) =>
              /\ calc' = Pipeline(pdf_bytes', txt_bytes').calc
              /\ ~calc'.isnone
       /\ (button' = "compute" /\ ~PipelineCompleted) => calc' = calc
       /\ button' = "none" => calc' = calc
      ]_vars

\* C11's case: the results of the two-row XY789 document (XY789 -> -3, so a
\* grand total of -6) are still cached after a compute press on a document
\* whose parse raised.
C11_Witness ==
    /\ button = "compute"
    /\ Truthy(pdf_bytes) /\ Truthy(txt_bytes)
    /\ ParseRows(pdf_bytes.matches).raised
    /\ ~calc.isnone /\ calc.grand_total = -6
    /\ DOMAIN calc.daily_totals = {"2024-01-01"}
    /\ selected_day = "2024-01-01"


=============================================================================
